---- MODULE Spec2Model ----
(***************************************************************************)
(* Order matching engine (src/main.go): two price heaps guarded by one     *)
(* mutex each, an unbuffered order channel drained by processOrders, the   *)
(* MatchOrders sweep run by StartMatching, and the HTTP query handlers.    *)
(* An order is a pointer in the program; here it is its position in the    *)
(* sequence `orders`, and a heap is a sequence of such positions.  Go      *)
(* slices are 0-based: h[i] of the source is hs.h[i + 1] below.            *)
(***************************************************************************)
EXTENDS Integers, Sequences, FiniteSets, TLC

\* ---- bounds of the model ----
MaxOrders == 3
MaxPrice == 2
MaxAmount == 2
MaxInFlight == 1

\* ---- constants of the program ----
Buy == "BUY"
Sell == "SELL"
Nil == 0

\* Bodies json.Unmarshal accepts that are well formed orders.
ValidBodies ==
  [Type : {Buy, Sell}, Price : 1..MaxPrice, Amount : 1..MaxAmount]

\* Bodies json.Unmarshal accepts as well, although a field is malformed:
\* another Type string, a non-positive Price, a non-positive Amount.
MalformedBodies ==
  { [Type |-> "HOLD", Price |-> 1, Amount |-> 1],
    [Type |-> Buy, Price |-> 0, Amount |-> 1],
    [Type |-> Sell, Price |-> 1, Amount |-> 0] }

Bodies == ValidBodies \cup MalformedBodies

VARIABLES
  orders,      \* the Order objects allocated so far (new(Order) in the handler)
  posted,      \* history: the body each order was decoded from
  BuyOrders,   \* me.BuyOrders, the backing array of the buy heap
  SellOrders,  \* me.SellOrders
  buyMutex,    \* "free" or the goroutine that holds me.buyMutex
  sellMutex,
  sending,     \* the orders whose AddOrder is blocked on me.orderChannel <- order
  wpc,         \* processOrders: position of the ingestion goroutine
  worder,      \* processOrders: the order received from the channel
  mpc,         \* MatchOrders: position of the matcher goroutine
  bestBuy,     \* MatchOrders: local bestBuy (Nil outside its scope)
  bestSell,    \* MatchOrders: local bestSell
  trades,      \* history: the MATCH lines printed, in order
  qpc,         \* position of the query goroutine
  qres,        \* the value a query holds between its return and the response
  before,      \* history: per order, the orders whose AddOrder had returned
               \* when its own AddOrder was called
  received,    \* history: the orders in the order processOrders received them
  pushed,      \* history: the orders in the order addOrderInternal pushed them
  quiet,       \* history: no order was pushed by addOrderInternal since the
               \* running sweep started
  settled,     \* history: a sweep ran from start to end with no such push,
               \* and there was none since
  iterationCount,  \* history: MatchOrders' local iterationCount, kept while
               \* no order was pushed since the sweep started (0 otherwise)
  initial      \* history: the two lengths line 203 prints, added up, kept
               \* for the same time

vars ==
  << orders, posted, BuyOrders, SellOrders, buyMutex, sellMutex, sending,
     wpc, worder, mpc, bestBuy, bestSell, trades, qpc, qres,
     before, received, pushed, quiet, settled, iterationCount, initial >>

\* ---- the heaps ----
\* A heap state is the backing array together with the orders it points to,
\* because Swap, Push and Pop write the Index field of the orders.
HS(h, o) == [h |-> h, o |-> o]

HeapLen(hs) == Len(hs.h)

Less(kind, hs, i, j) ==
  IF kind = Buy
    THEN hs.o[hs.h[i + 1]].Price > hs.o[hs.h[j + 1]].Price
    ELSE hs.o[hs.h[i + 1]].Price < hs.o[hs.h[j + 1]].Price

\* Swap without lines 56-57.
Swap_NoIndex(hs, i, j) ==
  HS([hs.h EXCEPT ![i + 1] = hs.h[j + 1], ![j + 1] = hs.h[i + 1]], hs.o)

Swap(hs, i, j) ==
  LET h1 == [hs.h EXCEPT ![i + 1] = hs.h[j + 1], ![j + 1] = hs.h[i + 1]]
      o1 == [hs.o EXCEPT ![h1[i + 1]].Index = i]
      o2 == [o1 EXCEPT ![h1[j + 1]].Index = j]
  IN  HS(h1, o2)

Push(hs, x) ==
  HS(Append(hs.h, x), [hs.o EXCEPT ![x].Index = Len(hs.h)])

\* Pop that leaves the element in the slice.
Pop_Keep(hs) == [hs |-> hs, order |-> hs.h[Len(hs.h)]]

\* Pop returns the heap state without its last element, and that element.
Pop(hs) ==
  LET n == Len(hs.h)
      order == hs.h[n]
  IN  [hs |-> HS(SubSeq(hs.h, 1, n - 1), [hs.o EXCEPT ![order].Index = -1]),
       order |-> order]

\* Go's integer division truncates toward zero: (0 - 1) / 2 = 0.
Parent(j) == IF j = 0 THEN 0 ELSE (j - 1) \div 2

\* up that never swaps.
up_NoSift(kind, hs, j) == hs

RECURSIVE up(_, _, _)
up(kind, hs, j) ==
  LET i == Parent(j)
  IN  IF i = j \/ ~Less(kind, hs, j, i)
        THEN hs
        ELSE up(kind, Swap(hs, i, j), i)

RECURSIVE down(_, _, _, _)
down(kind, hs, i, n) ==
  LET j1 == 2 * i + 1
      j2 == j1 + 1
      j == IF j2 < n /\ Less(kind, hs, j2, j1) THEN j2 ELSE j1
  IN  IF j1 >= n
        THEN hs
        ELSE IF ~Less(kind, hs, j, i)
               THEN hs
               ELSE down(kind, Swap(hs, i, j), j, n)

heapPush(kind, hs, x) == up(kind, Push(hs, x), HeapLen(Push(hs, x)) - 1)

heapPop(kind, hs) ==
  LET n == HeapLen(hs) - 1
  IN  Pop(down(kind, Swap(hs, 0, n), 0, n))

\* min with the branches exchanged.
min_Larger(a, b) == IF a < b THEN b ELSE a

min(a, b) == IF a < b THEN a ELSE b

\* ---- construction ----
Init ==
  /\ orders = << >>
  /\ posted = << >>
  /\ BuyOrders = << >>
  /\ SellOrders = << >>
  /\ buyMutex = "free"
  /\ sellMutex = "free"
  /\ sending = {}
  /\ wpc = "recv"
  /\ worder = Nil
  /\ mpc = "L203"
  /\ bestBuy = Nil
  /\ bestSell = Nil
  /\ trades = << >>
  /\ qpc = "idle"
  /\ qres = << >>
  /\ before = << >>
  /\ received = << >>
  /\ pushed = << >>
  /\ quiet = FALSE
  /\ settled = FALSE
  /\ iterationCount = 0
  /\ initial = 0

\* ---- POST /orders: AddOrderHandler and AddOrder ----
\* Each request runs the handler in a goroutine of its own: it decodes the
\* body into a new Order and calls AddOrder, which blocks on the unbuffered
\* channel until processOrders receives the order.  The client of the
\* repository numbers its orders (ID: i) and sends Index 0.
AddOrder(body) ==
  /\ Cardinality(sending) < MaxInFlight
  /\ Len(orders) < MaxOrders
  /\ LET n == Len(orders) + 1
     IN  /\ orders' = Append(orders,
                        [ID |-> n, Type |-> body.Type, Price |-> body.Price,
                         Amount |-> body.Amount, Index |-> 0])
         /\ posted' = Append(posted, body)
         /\ sending' = sending \cup {n}
         /\ before' = Append(before, (1..Len(orders)) \ sending)
  /\ UNCHANGED << BuyOrders, SellOrders, buyMutex, sellMutex, wpc, worder,
                  mpc, bestBuy, bestSell, trades, qpc, qres, received, pushed >>

\* ---- processOrders: the ingestion goroutine ----
\* Receive that does not wait for addOrderInternal to take its mutex.
Receive_Early(order) ==
  /\ wpc \in {"recv", "lock"}
  /\ order \in sending
  /\ worder' = order
  /\ sending' = sending \ {order}
  /\ wpc' = "lock"
  /\ received' = Append(received, order)
  /\ UNCHANGED << orders, posted, BuyOrders, SellOrders, buyMutex, sellMutex,
                  mpc, bestBuy, bestSell, trades, qpc, qres, before, pushed >>

\* Receive of an engine whose processOrders was never started.
Receive_Never(order) == FALSE /\ UNCHANGED vars

\* for order := range me.orderChannel: the receive completes one of the
\* blocked sends, and that AddOrder returns.
Receive(order) ==
  /\ wpc = "recv"
  /\ order \in sending
  /\ worder' = order
  /\ sending' = sending \ {order}
  /\ wpc' = "lock"
  /\ received' = Append(received, order)
  /\ UNCHANGED << orders, posted, BuyOrders, SellOrders, buyMutex, sellMutex,
                  mpc, bestBuy, bestSell, trades, qpc, qres, before, pushed >>

\* BookOf with the two books exchanged.
BookOf_Swapped(order) == IF orders[order].Type = Buy THEN Sell ELSE Buy

\* addOrderInternal: the book is chosen by order.Type == Buy, else the sell book.
BookOf(order) == IF orders[order].Type = Buy THEN Buy ELSE Sell

addOrderInternalLock ==
  /\ wpc = "lock"
  /\ IF BookOf(worder) = Buy
       THEN /\ buyMutex = "free"
            /\ buyMutex' = "worker"
            /\ UNCHANGED sellMutex
       ELSE /\ sellMutex = "free"
            /\ sellMutex' = "worker"
            /\ UNCHANGED buyMutex
  /\ wpc' = "push"
  /\ UNCHANGED << orders, posted, BuyOrders, SellOrders, sending, worder,
                  mpc, bestBuy, bestSell, trades, qpc, qres,
                  before, received, pushed >>

addOrderInternalPush ==
  /\ wpc = "push"
  /\ IF BookOf(worder) = Buy
       THEN LET hs == heapPush(Buy, HS(BuyOrders, orders), worder)
            IN  /\ BuyOrders' = hs.h
                /\ orders' = hs.o
                /\ buyMutex' = "free"
                /\ UNCHANGED << SellOrders, sellMutex >>
       ELSE LET hs == heapPush(Sell, HS(SellOrders, orders), worder)
            IN  /\ SellOrders' = hs.h
                /\ orders' = hs.o
                /\ sellMutex' = "free"
                /\ UNCHANGED << BuyOrders, buyMutex >>
  /\ wpc' = "recv"
  /\ worder' = Nil
  /\ pushed' = Append(pushed, worder)
  /\ UNCHANGED << posted, sending, mpc, bestBuy, bestSell, trades, qpc, qres,
                  before, received >>

\* ---- StartMatching / MatchOrders: the matcher goroutine ----
\* Positions are named after the line of src/main.go the goroutine is about
\* to execute; `others` is what no matcher step changes.
others ==
  << posted, sending, wpc, worder, qpc, qres, before, received, pushed >>

\* Lines 198-209: a sweep starts; the opening log of line 203 reads the
\* lengths of both books with no mutex held.
StartSweep ==
  /\ mpc = "L203"
  /\ mpc' = "L211"
  /\ UNCHANGED << orders, BuyOrders, SellOrders, buyMutex, sellMutex,
                  bestBuy, bestSell, trades, others >>

\* me.buyMutex.Lock() at lines 211, 227, 262 and 286.
MatcherLockBuy(from, to) ==
  /\ mpc = from
  /\ buyMutex = "free"
  /\ buyMutex' = "matcher"
  /\ mpc' = to
  /\ UNCHANGED << orders, BuyOrders, SellOrders, sellMutex,
                  bestBuy, bestSell, trades, others >>

\* me.sellMutex.Lock() at lines 223, 273 and 293.
MatcherLockSell(from, to) ==
  /\ mpc = from
  /\ sellMutex = "free"
  /\ sellMutex' = "matcher"
  /\ mpc' = to
  /\ UNCHANGED << orders, BuyOrders, SellOrders, buyMutex,
                  bestBuy, bestSell, trades, others >>

\* heap.Push(me.BuyOrders, bestBuy) and Unlock at lines 229, 264 and 288;
\* it is the last use of bestBuy in the iteration.
MatcherPushBuy(from, to) ==
  /\ mpc = from
  /\ LET hs == heapPush(Buy, HS(BuyOrders, orders), bestBuy)
     IN  /\ BuyOrders' = hs.h
         /\ orders' = hs.o
  /\ buyMutex' = "free"
  /\ bestBuy' = Nil
  /\ mpc' = to
  /\ UNCHANGED << SellOrders, sellMutex, bestSell, trades, others >>

\* heap.Push(me.SellOrders, bestSell) and Unlock at lines 275 and 295.
MatcherPushSell(from, to) ==
  /\ mpc = from
  /\ LET hs == heapPush(Sell, HS(SellOrders, orders), bestSell)
     IN  /\ SellOrders' = hs.h
         /\ orders' = hs.o
  /\ sellMutex' = "free"
  /\ bestSell' = Nil
  /\ mpc' = to
  /\ UNCHANGED << BuyOrders, buyMutex, bestBuy, trades, others >>

LockBuy == MatcherLockBuy("L211", "L212")

\* Lines 212-216: the buy book is empty, unlock and break.
NoBuys ==
  /\ mpc = "L212"
  /\ Len(BuyOrders) = 0
  /\ buyMutex' = "free"
  /\ mpc' = "L312"
  /\ UNCHANGED << orders, BuyOrders, SellOrders, sellMutex,
                  bestBuy, bestSell, trades, others >>

\* Lines 217-220: pop the best buy and unlock.
PopBestBuy ==
  /\ mpc = "L212"
  /\ Len(BuyOrders) # 0
  /\ LET r == heapPop(Buy, HS(BuyOrders, orders))
     IN  /\ BuyOrders' = r.hs.h
         /\ orders' = r.hs.o
         /\ bestBuy' = r.order
  /\ buyMutex' = "free"
  /\ mpc' = "L223"
  /\ UNCHANGED << SellOrders, sellMutex, bestSell, trades, others >>

LockSell == MatcherLockSell("L223", "L224")

\* NoSells without the Unlock of line 226.
NoSells_KeepMutex ==
  /\ mpc = "L224"
  /\ Len(SellOrders) = 0
  /\ mpc' = "L227"
  /\ UNCHANGED << orders, BuyOrders, SellOrders, buyMutex, sellMutex,
                  bestBuy, bestSell, trades, others >>

\* Lines 224-226: the sell book is empty, unlock; the buy goes back next.
NoSells ==
  /\ mpc = "L224"
  /\ Len(SellOrders) = 0
  /\ sellMutex' = "free"
  /\ mpc' = "L227"
  /\ UNCHANGED << orders, BuyOrders, SellOrders, buyMutex,
                  bestBuy, bestSell, trades, others >>

ReturnBuyLock == MatcherLockBuy("L227", "L229")

\* ReturnBuy without the push of line 229.
ReturnBuy_Lost ==
  /\ mpc = "L229"
  /\ buyMutex' = "free"
  /\ bestBuy' = Nil
  /\ mpc' = "L312"
  /\ UNCHANGED << orders, BuyOrders, SellOrders, sellMutex, bestSell, trades,
                  others >>

\* Lines 228-232: push the best buy back, unlock and break.
ReturnBuy == MatcherPushBuy("L229", "L312")

\* Lines 234-237: pop the best sell and unlock.
PopBestSell ==
  /\ mpc = "L224"
  /\ Len(SellOrders) # 0
  /\ LET r == heapPop(Sell, HS(SellOrders, orders))
     IN  /\ SellOrders' = r.hs.h
         /\ orders' = r.hs.o
         /\ bestSell' = r.order
  /\ sellMutex' = "free"
  /\ mpc' = "L243"
  /\ UNCHANGED << BuyOrders, buyMutex, bestBuy, trades, others >>

\* Crosses without the comparison of line 243.
Crosses_Always(buy, sell) == TRUE

\* Lines 328-331: the line executeTrade prints; its price is the price of the
\* sell order. No statement of the program calls executeTrade.
executeTrade(buyOrder, sellOrder, amount) ==
  [buy |-> buyOrder.ID, sell |-> sellOrder.ID, qty |-> amount,
   price |-> sellOrder.Price]

\* The test of line 243.
Crosses(buy, sell) == buy.Price >= sell.Price

\* Fill without line 255.
Fill_BuyOnly(o, buy, sell, tradeAmount) ==
  [o EXCEPT ![buy].Amount = @ - tradeAmount]

\* Lines 254-255: both amounts are reduced by the traded amount.
Fill(o, buy, sell, tradeAmount) ==
  [o EXCEPT ![buy].Amount = @ - tradeAmount, ![sell].Amount = @ - tradeAmount]

\* HasRest with >= for >.
HasRest_OrZero(order) == order.Amount >= 0

\* HasRest that sends every order back to its book.
HasRest_Always(order) == TRUE

\* The tests of lines 261 and 272: only an order with a rest is pushed back.
HasRest(order) == order.Amount > 0

\* Lines 243-258: the prices cross; the MATCH line is printed and both
\* amounts are reduced by min(bestBuy.Amount, bestSell.Amount).
Trade ==
  /\ mpc = "L243"
  /\ Crosses(orders[bestBuy], orders[bestSell])
  /\ LET tradeAmount == min(orders[bestBuy].Amount, orders[bestSell].Amount)
     IN  /\ trades' = Append(trades,
                        [buy |-> bestBuy, buyPrice |-> orders[bestBuy].Price,
                         sell |-> bestSell, sellPrice |-> orders[bestSell].Price,
                         qty |-> tradeAmount])
         /\ orders' = Fill(orders, bestBuy, bestSell, tradeAmount)
  /\ mpc' = "L261"
  /\ UNCHANGED << BuyOrders, SellOrders, buyMutex, sellMutex,
                  bestBuy, bestSell, others >>

\* Lines 261-262: the buy has a rest, it goes back into the buy book.
ReinsertBuyLock ==
  /\ mpc = "L261"
  /\ HasRest(orders[bestBuy])
  /\ MatcherLockBuy("L261", "L264")

ReinsertBuy == MatcherPushBuy("L264", "L272")

\* Lines 268-270: the buy is complete and is not pushed back.
DropBuy ==
  /\ mpc = "L261"
  /\ ~HasRest(orders[bestBuy])
  /\ bestBuy' = Nil
  /\ mpc' = "L272"
  /\ UNCHANGED << orders, BuyOrders, SellOrders, buyMutex, sellMutex,
                  bestSell, trades, others >>

\* Lines 272-273.
ReinsertSellLock ==
  /\ mpc = "L272"
  /\ HasRest(orders[bestSell])
  /\ MatcherLockSell("L272", "L275")

ReinsertSell == MatcherPushSell("L275", "L302")

\* Lines 279-281.
DropSell ==
  /\ mpc = "L272"
  /\ ~HasRest(orders[bestSell])
  /\ bestSell' = Nil
  /\ mpc' = "L302"
  /\ UNCHANGED << orders, BuyOrders, SellOrders, buyMutex, sellMutex,
                  bestBuy, trades, others >>

\* Lines 282-285: the prices do not cross.
NoCross ==
  /\ mpc = "L243"
  /\ ~Crosses(orders[bestBuy], orders[bestSell])
  /\ mpc' = "L286"
  /\ UNCHANGED << orders, BuyOrders, SellOrders, buyMutex, sellMutex,
                  bestBuy, bestSell, trades, others >>

\* Lines 286-299: both orders go back, then break.
GiveBackBuyLock == MatcherLockBuy("L286", "L288")
GiveBackBuy == MatcherPushBuy("L288", "L293")
GiveBackSellLock == MatcherLockSell("L293", "L295")
GiveBackSell == MatcherPushSell("L295", "L312")

\* Exhausted that ends the sweep after every trade.
Exhausted_Always(buys, sells) == TRUE

\* The test of line 306.
Exhausted(buys, sells) == Len(buys) = 0 \/ Len(sells) = 0

\* Lines 302-309: both lengths are read with no mutex held; the sweep goes
\* on when neither is 0.
CheckBooks ==
  /\ mpc = "L302"
  /\ mpc' = IF Exhausted(BuyOrders, SellOrders) THEN "L312" ELSE "L211"
  /\ UNCHANGED << orders, BuyOrders, SellOrders, buyMutex, sellMutex,
                  bestBuy, bestSell, trades, others >>

\* Lines 312-318 and 347-350: the closing log reads both lengths with no
\* mutex held, MatchOrders returns, and StartMatching sleeps and calls it again.
EndSweep ==
  /\ mpc = "L312"
  /\ mpc' = "L203"
  /\ UNCHANGED << orders, BuyOrders, SellOrders, buyMutex, sellMutex,
                  bestBuy, bestSell, trades, others >>

MatchOrders ==
  \/ LockBuy \/ NoBuys \/ PopBestBuy
  \/ LockSell \/ NoSells \/ ReturnBuyLock \/ ReturnBuy \/ PopBestSell
  \/ Trade \/ ReinsertBuyLock \/ ReinsertBuy \/ DropBuy
  \/ ReinsertSellLock \/ ReinsertSell \/ DropSell
  \/ NoCross \/ GiveBackBuyLock \/ GiveBackBuy
  \/ GiveBackSellLock \/ GiveBackSell
  \/ CheckBooks \/ EndSweep

\* ---- the query handlers ----
qothers ==
  << posted, sending, wpc, worder, mpc, bestBuy, bestSell, trades,
     before, received, pushed >>

\* An Order value, as a dereference *order copies it.
Clone(order) == orders[order]

\* Root that takes the last element of the array.
Root_Last(book) == book[Len(book)]

\* (*me.BuyOrders)[0] and (*me.SellOrders)[0] of lines 360 and 372.
Root(book) == book[1]

\* GetHighestBuyOrder, lines 355-356: Lock, with the Unlock deferred.
GetHighestBuyOrderLock ==
  /\ qpc = "idle"
  /\ buyMutex = "free"
  /\ buyMutex' = "query"
  /\ qpc' = "L358"
  /\ UNCHANGED << orders, BuyOrders, SellOrders, sellMutex, qres, qothers >>

\* Lines 358-363: a clone of the root or nil; the deferred Unlock runs.
GetHighestBuyOrder ==
  /\ qpc = "L358"
  /\ qres' = IF Len(BuyOrders) > 0 THEN << Clone(Root(BuyOrders)) >> ELSE << >>
  /\ buyMutex' = "free"
  /\ qpc' = "L381"
  /\ UNCHANGED << orders, BuyOrders, SellOrders, sellMutex, qothers >>

\* GetHighestSellOrder, lines 367-368.
GetHighestSellOrderLock ==
  /\ qpc = "idle"
  /\ sellMutex = "free"
  /\ sellMutex' = "query"
  /\ qpc' = "L370"
  /\ UNCHANGED << orders, BuyOrders, SellOrders, buyMutex, qres, qothers >>

\* Lines 370-375.
GetHighestSellOrder ==
  /\ qpc = "L370"
  /\ qres' = IF Len(SellOrders) > 0 THEN << Clone(Root(SellOrders)) >> ELSE << >>
  /\ sellMutex' = "free"
  /\ qpc' = "L391"
  /\ UNCHANGED << orders, BuyOrders, SellOrders, buyMutex, qothers >>

\* GetHighestBuyOrderHandler and GetHighestSellOrderHandler, lines 381-384
\* and 391-394: the response is 404 for nil and the JSON of the clone
\* otherwise; the handler is done.
Respond ==
  /\ qpc \in {"L381", "L391"}
  /\ qres' = << >>
  /\ qpc' = "idle"
  /\ UNCHANGED << orders, BuyOrders, SellOrders, buyMutex, sellMutex, qothers >>

\* GET /orders, lines 412-417: c.JSON encodes the buy book, then the sell
\* book, reading each through its pointer with no mutex held.
EncodeBuys ==
  /\ qpc = "idle"
  /\ qres' = [i \in 1..Len(BuyOrders) |-> Clone(BuyOrders[i])]
  /\ qpc' = "L415"
  /\ UNCHANGED << orders, BuyOrders, SellOrders, buyMutex, sellMutex, qothers >>

EncodeSells ==
  /\ qpc = "L415"
  /\ qres' = << >>
  /\ qpc' = "idle"
  /\ UNCHANGED << orders, BuyOrders, SellOrders, buyMutex, sellMutex, qothers >>

Query ==
  \/ GetHighestBuyOrderLock \/ GetHighestBuyOrder
  \/ GetHighestSellOrderLock \/ GetHighestSellOrder
  \/ Respond
  \/ EncodeBuys \/ EncodeSells

Next ==
  \/ \E body \in Bodies : AddOrder(body)
  \/ \E order \in sending : Receive(order)
  \/ addOrderInternalLock
  \/ addOrderInternalPush
  \/ StartSweep
  \/ MatchOrders
  \/ Query

\* The program; the two sweep histories and the two counts that MatchOrders
\* only prints are not kept.
Spec ==
  Init /\ [][Next /\ UNCHANGED << quiet, settled, iterationCount, initial >>]_vars

\* The program with the two sweep histories kept: StartSweep opens a quiet
\* sweep, a push of addOrderInternal ends the quiet, EndSweep settles the
\* books when the sweep it ends was quiet.
StartsSweep == mpc = "L203" /\ mpc' = "L211"
EndsSweep == mpc = "L312" /\ mpc' = "L203"
Ingests == pushed' # pushed

Track ==
  /\ quiet' = IF StartsSweep THEN TRUE ELSE IF Ingests THEN FALSE ELSE quiet
  /\ settled' = IF Ingests THEN FALSE ELSE IF EndsSweep THEN quiet ELSE settled
  /\ UNCHANGED << iterationCount, initial >>

SpecSweep == Init /\ [][Next /\ Track]_vars

\* The three goroutines under the Go scheduler. StartMatching (lines 345-352)
\* calls MatchOrders again 50 ms after each return, for ever; processOrders
\* (lines 158-169) ranges over the channel for ever; a handler that holds a
\* mutex runs to its deferred Unlock. A goroutine that is runnable is run,
\* and a goroutine blocked in Lock gets the mutex: sync.Mutex hands the mutex
\* to a waiter that has waited 1 ms (starvation mode), hence strong fairness.
\* No fairness is asked of the clients: requests may stop at any moment.
Keep == UNCHANGED << quiet, settled, iterationCount, initial >>

Matcher == (StartSweep \/ MatchOrders) /\ Keep

Worker ==
  /\ \/ \E order \in sending : Receive(order)
     \/ addOrderInternalLock
     \/ addOrderInternalPush
  /\ Keep

Handler == (GetHighestBuyOrder \/ GetHighestSellOrder) /\ Keep

Fairness ==
  /\ SF_vars(Matcher)
  /\ SF_vars(Worker)
  /\ WF_vars(Handler)

\* The program, fairly scheduled, with clients that post well-formed orders.
NextValid ==
  \/ \E body \in ValidBodies : AddOrder(body)
  \/ \E order \in sending : Receive(order)
  \/ addOrderInternalLock
  \/ addOrderInternalPush
  \/ StartSweep
  \/ MatchOrders
  \/ Query

SpecFair == Init /\ [][NextValid /\ Keep]_vars /\ Fairness

\* The program with the counts of one invocation of MatchOrders kept for as
\* long as nothing is pushed during it. Line 207: iterationCount++ at the top
\* of each pass of the for loop; line 203: the lengths of the two books,
\* read when the invocation starts. Both are gone when MatchOrders returns.
Iterates == mpc # "L211" /\ mpc' = "L211"

Count ==
  /\ iterationCount' = IF EndsSweep \/ Ingests THEN 0
                        ELSE IF Iterates /\ quiet' THEN iterationCount + 1
                        ELSE iterationCount
  /\ initial' = IF StartsSweep THEN Len(BuyOrders) + Len(SellOrders)
                 ELSE IF EndsSweep \/ Ingests THEN 0
                 ELSE initial

TrackCount ==
  /\ quiet' = IF StartsSweep THEN TRUE ELSE IF Ingests THEN FALSE ELSE quiet
  /\ Count
  /\ UNCHANGED settled

MatcherCount == (StartSweep \/ MatchOrders) /\ TrackCount

WorkerCount ==
  /\ \/ \E order \in sending : Receive(order)
     \/ addOrderInternalLock
     \/ addOrderInternalPush
  /\ TrackCount

HandlerCount == (GetHighestBuyOrder \/ GetHighestSellOrder) /\ TrackCount

FairnessCount ==
  /\ SF_vars(MatcherCount)
  /\ SF_vars(WorkerCount)
  /\ WF_vars(HandlerCount)

SpecCount == Init /\ [][NextValid /\ TrackCount]_vars /\ FairnessCount

\* ---- what the claims speak of ----
Range(f) == { f[i] : i \in DOMAIN f }

Resident(order) == order \in Range(BuyOrders) \cup Range(SellOrders)

\* Every order submitted so far came with a positive amount.
AllPositive == \A o \in DOMAIN posted : posted[o].Amount > 0

\* The body has a malformed field.
Malformed(body) ==
  \/ body.Type \notin {Buy, Sell}
  \/ body.Price <= 0
  \/ body.Amount <= 0

\* No order submitted so far has a malformed field.
WellFormed == \A o \in DOMAIN posted : ~Malformed(posted[o])

\* The quantity `order` traded in the first n trades.
RECURSIVE TradedUpTo(_, _)
TradedUpTo(order, n) ==
  IF n = 0
    THEN 0
    ELSE TradedUpTo(order, n - 1)
         + (IF order \in {trades[n].buy, trades[n].sell} THEN trades[n].qty ELSE 0)

Traded(order) == TradedUpTo(order, Len(trades))

\* The amount by which the orders 1..n of the side `kind` went down.
RECURSIVE SideFilledUpTo(_, _)
SideFilledUpTo(kind, n) ==
  IF n = 0
    THEN 0
    ELSE SideFilledUpTo(kind, n - 1)
         + (IF BookOf(n) = kind THEN posted[n].Amount - orders[n].Amount ELSE 0)

SideFilled(kind) == SideFilledUpTo(kind, Len(orders))

\* The step prints a MATCH line.
TradeStep == Len(trades') = Len(trades) + 1

\* C1: every trade pairs an order of the buy side with an order of the sell
\* side, and the price of the buy is at least the price of the sell, as
\* printed and as the two orders hold them.
C1_TradesCross ==
  \A i \in DOMAIN trades :
    /\ BookOf(trades[i].buy) = Buy
    /\ BookOf(trades[i].sell) = Sell
    /\ trades[i].buyPrice >= trades[i].sellPrice
    /\ orders[trades[i].buy].Price >= orders[trades[i].sell].Price

\* A trade at equal prices and a pair that was popped and did not cross.
C1_Witness ==
  /\ \E i \in DOMAIN trades : trades[i].buyPrice = trades[i].sellPrice
  /\ mpc = "L286"
  /\ orders[bestBuy].Price < orders[bestSell].Price

\* C2: with positive amounts submitted, every order's original amount is
\* its residual plus what it traded, it never traded more than its original
\* amount, and the buy side went down by as much as the sell side.
C2_Conservation ==
  AllPositive =>
    /\ \A o \in DOMAIN orders :
         /\ posted[o].Amount = orders[o].Amount + Traded(o)
         /\ Traded(o) <= posted[o].Amount
    /\ SideFilled(Buy) = SideFilled(Sell)

\* Two trades, one order partly filled.
C2_Witness ==
  /\ AllPositive
  /\ Len(trades) >= 2
  /\ \E o \in DOMAIN orders : 0 < Traded(o) /\ Traded(o) < posted[o].Amount

\* C3: when a trade is made, no buy in the buy book has a higher price than
\* the buy of the trade and no sell in the sell book has a lower price than
\* the sell of the trade.
PricePriority ==
  /\ \A o \in Range(BuyOrders) : orders[o].Price <= orders[bestBuy].Price
  /\ \A o \in Range(SellOrders) : orders[o].Price >= orders[bestSell].Price

C3_PricePriority == [][TradeStep /\ WellFormed => PricePriority]_vars

\* C4: an order with a malformed field is never on the channel and never in
\* a book.
C4_MalformedDropped ==
  \A o \in DOMAIN orders :
    Malformed(posted[o]) => o \notin sending /\ o # worder /\ ~Resident(o)

\* The positions from which the matcher's step reads or writes a book.
MatcherBuyAccess == {"L203", "L212", "L229", "L264", "L288", "L302", "L312"}
MatcherSellAccess == {"L203", "L224", "L275", "L295", "L302", "L312"}

\* The step reads or writes the buy book, and which goroutine takes it.
MatcherTouchesBuy == mpc \in MatcherBuyAccess /\ mpc' # mpc
WorkerTouchesBuy == wpc = "push" /\ wpc' # wpc /\ BookOf(worder) = Buy
QueryTouchesBuy == qpc \in {"L358", "idle"} /\ qpc' \in {"L381", "L415"}

MatcherTouchesSell == mpc \in MatcherSellAccess /\ mpc' # mpc
WorkerTouchesSell == wpc = "push" /\ wpc' # wpc /\ BookOf(worder) = Sell
QueryTouchesSell == qpc \in {"L370", "L415"} /\ qpc' \in {"L391", "idle"}

\* C5: a goroutine reads or writes a book only while it holds the mutex of
\* that book.
C5_AccessUnderMutex ==
  [][ /\ MatcherTouchesBuy => buyMutex = "matcher"
      /\ WorkerTouchesBuy => buyMutex = "worker"
      /\ QueryTouchesBuy => buyMutex = "query"
      /\ MatcherTouchesSell => sellMutex = "matcher"
      /\ WorkerTouchesSell => sellMutex = "worker"
      /\ QueryTouchesSell => sellMutex = "query" ]_vars

\* C6: no goroutine holds both mutexes; each holds a mutex exactly between
\* its Lock and the Unlock that follows, so none is held when MatchOrders
\* returns, when addOrderInternal returns or when a query returns; and the
\* holder of a mutex can always take its next step, so no goroutine waits
\* for a mutex that is never released.
C6_NoDoubleLockNoDeadlock ==
  /\ \A g \in {"worker", "matcher", "query"} : ~(buyMutex = g /\ sellMutex = g)
  /\ buyMutex = "matcher" <=> mpc \in {"L212", "L229", "L264", "L288"}
  /\ sellMutex = "matcher" <=> mpc \in {"L224", "L275", "L295"}
  /\ buyMutex = "worker" <=> (wpc = "push" /\ BookOf(worder) = Buy)
  /\ sellMutex = "worker" <=> (wpc = "push" /\ BookOf(worder) = Sell)
  /\ buyMutex = "query" <=> qpc = "L358"
  /\ sellMutex = "query" <=> qpc = "L370"
  /\ "matcher" \in {buyMutex, sellMutex} => ENABLED MatchOrders
  /\ "worker" \in {buyMutex, sellMutex} => ENABLED addOrderInternalPush
  /\ "query" \in {buyMutex, sellMutex} => ENABLED Query

\* The matcher is about to take the buy mutex back after it found the sell
\* book empty, the query holds the buy mutex and the worker the sell mutex.
C6_Witness ==
  /\ mpc = "L227"
  /\ buyMutex = "query"
  /\ sellMutex = "worker"

\* C7: with positive amounts submitted, every order in a book has a positive
\* amount, no amount is negative, and no step raises an amount.
AmountsInRange ==
  /\ \A o \in Range(BuyOrders) \cup Range(SellOrders) : orders[o].Amount > 0
  /\ \A o \in DOMAIN orders : orders[o].Amount >= 0

C7_AmountsPositive ==
  [][AllPositive' =>
       /\ AmountsInRange'
       /\ \A o \in DOMAIN orders : orders'[o].Amount <= orders[o].Amount]_vars

\* An order was filled and is gone, another was partly filled and is back in
\* its book with the rest.
C7_Witness ==
  /\ AllPositive
  /\ \E o \in DOMAIN orders : orders[o].Amount = 0 /\ Traded(o) > 0 /\ ~Resident(o)
  /\ \E o \in DOMAIN orders :
       Resident(o) /\ 0 < orders[o].Amount /\ orders[o].Amount < posted[o].Amount

\* C8: with positive amounts submitted, every trade has a positive quantity.
C8_PositiveQuantity ==
  AllPositive => \A i \in DOMAIN trades : trades[i].qty > 0

\* The rest of a partly filled order traded again.
C8_Witness ==
  /\ AllPositive
  /\ \E i, j \in DOMAIN trades :
       /\ i < j
       /\ trades[i].buy = trades[j].buy \/ trades[i].sell = trades[j].sell

\* C9: while the mutex of a book is free, the root of the buy book has the
\* highest price of the book and the root of the sell book the lowest; and a
\* push of an order with a price above every buy (below every sell) of the
\* book makes it the root.
RootExtremal ==
  /\ buyMutex = "free" =>
       \A o \in Range(BuyOrders) : orders[BuyOrders[1]].Price >= orders[o].Price
  /\ sellMutex = "free" =>
       \A o \in Range(SellOrders) : orders[SellOrders[1]].Price <= orders[o].Price

PushOfExtremeMakesRoot ==
  /\ \A x \in Range(BuyOrders') \ Range(BuyOrders) :
       (\A o \in Range(BuyOrders) : orders[x].Price > orders[o].Price)
         => BuyOrders'[1] = x
  /\ \A x \in Range(SellOrders') \ Range(SellOrders) :
       (\A o \in Range(SellOrders) : orders[x].Price < orders[o].Price)
         => SellOrders'[1] = x

C9_RootExtremal == [][RootExtremal' /\ PushOfExtremeMakesRoot]_vars

\* The buy that came last has the highest price and is the root of a book of
\* three.
C9_Witness ==
  /\ buyMutex = "free"
  /\ Len(BuyOrders) = 3
  /\ BuyOrders[1] = 3
  /\ \A i \in 2..3 : orders[BuyOrders[i]].Price < orders[3].Price

\* C10: while the mutex of a book is free, the order at position i of the
\* book has Index i; an order that was popped and is in no book has Index -1.
C10_IndexIsPosition ==
  /\ buyMutex = "free" =>
       \A i \in DOMAIN BuyOrders : orders[BuyOrders[i]].Index = i - 1
  /\ sellMutex = "free" =>
       \A i \in DOMAIN SellOrders : orders[SellOrders[i]].Index = i - 1
  /\ \A o \in DOMAIN orders :
       (o \notin sending /\ o # worder /\ ~Resident(o)) => orders[o].Index = -1

\* The matcher holds the popped best buy, the two buys left in the book have
\* moved, and the order that came last is the root.
C10_Witness ==
  /\ bestBuy # Nil
  /\ buyMutex = "free"
  /\ Len(BuyOrders) = 2
  /\ BuyOrders[1] > BuyOrders[2]

\* The steps of the two GetHighest functions and of their handlers.
ReadsBestBuy == qpc = "L358" /\ qpc' = "L381"
ReadsBestSell == qpc = "L370" /\ qpc' = "L391"
HoldsResult == qpc \in {"L381", "L391"} /\ qpc' = qpc
Responds == qpc \in {"L381", "L391"} /\ qpc' = "idle"

\* C11: GetHighestBuyOrder and GetHighestSellOrder return nil exactly when
\* the book is empty while they hold its mutex, and otherwise the value the
\* root has at that moment; what the engine does afterwards does not change
\* the value returned, and the handler that holds it changes no order and no
\* book.
C11_TopOfBookClone ==
  [][ /\ ReadsBestBuy =>
           /\ qres' = << >> <=> BuyOrders = << >>
           /\ BuyOrders # << >> => qres' = << orders[BuyOrders[1]] >>
      /\ ReadsBestSell =>
           /\ qres' = << >> <=> SellOrders = << >>
           /\ SellOrders # << >> => qres' = << orders[SellOrders[1]] >>
      /\ HoldsResult => qres' = qres
      /\ Responds => /\ orders' = orders
                     /\ BuyOrders' = BuyOrders
                     /\ SellOrders' = SellOrders ]_vars

\* The handler holds the clone of a buy that has since been partly filled and
\* pushed back: the resident order and the clone differ in Amount.
C11_Witness ==
  /\ qpc = "L381"
  /\ qres # << >>
  /\ qres[1].ID \in Range(BuyOrders)
  /\ orders[qres[1].ID].Amount < qres[1].Amount

\* Position of x in the sequence s, 0 when it is not there.
IndexOf(s, x) ==
  IF x \in Range(s) THEN CHOOSE i \in DOMAIN s : s[i] = x ELSE 0

\* x is in s, and y is in s only after x.
Precedes(s, x, y) ==
  /\ x \in Range(s)
  /\ y \in Range(s) => IndexOf(s, x) < IndexOf(s, y)

\* C12: when AddOrder for A had returned before AddOrder for B was called,
\* processOrders receives A before B and pushes A before B.
C12_ProducerOrder ==
  \A b \in DOMAIN before : \A a \in before[b] :
    /\ b \in Range(received) => Precedes(received, a, b)
    /\ b \in Range(pushed) => Precedes(pushed, a, b)

\* A buy and then a sell of one producer are both in their books, while the
\* matcher worked on the first.
C12_Witness ==
  /\ Len(pushed) >= 2
  /\ 1 \in before[2]
  /\ BookOf(1) # BookOf(2)
  /\ Len(trades) >= 1

\* id, side, price and amount of an order; Index is its place in the heap.
Facts(order) == [orders[order] EXCEPT !.Index = 0]

\* The orders of each side, in the book or popped by the matcher.
BuySide == {Facts(o) : o \in Range(BuyOrders) \cup ({bestBuy} \ {Nil})}
SellSide == {Facts(o) : o \in Range(SellOrders) \cup ({bestSell} \ {Nil})}

\* C13: once a sweep has run with no ingestion, the sweeps that follow with
\* no ingestion print no MATCH line and leave in each book the orders the
\* first sweep left, with the same id, side, price and amount.
C13_IdempotentNoCross ==
  [][settled =>
       /\ ~TradeStep
       /\ settled' =>
            /\ BuySide' = BuySide
            /\ SellSide' = SellSide
            /\ mpc' \in {"L203", "L312"} => bestBuy' = Nil /\ bestSell' = Nil]_vars

\* The first sweep traded; the second popped the two best orders, found that
\* they do not cross and has put the buy back.
C13_Witness ==
  /\ settled
  /\ Len(trades) >= 1
  /\ mpc = "L293"

\* The books do not cross: one is empty or the best buy is below the best sell.
BooksUncrossed ==
  \/ BuyOrders = << >>
  \/ SellOrders = << >>
  \/ orders[BuyOrders[1]].Price < orders[SellOrders[1]].Price

\* Every order submitted is in its book or was filled there.
AllIngested == sending = {} /\ wpc = "recv"

\* The matcher holds no order outside the books.
NothingHeld == bestBuy = Nil /\ bestSell = Nil

C15_TradePriceIsSellPrice ==
  WellFormed => \A i \in DOMAIN trades :
    LET t == trades[i]
        e == executeTrade(orders[t.buy], orders[t.sell], t.qty)
    IN /\ "price" \in DOMAIN t
       /\ t.price = e.price

\* The matcher leaves the re-insertion of the buy (lines 261-270) and of the
\* sell (lines 272-281).
BuyHandled == mpc \in {"L261", "L264"} /\ mpc' = "L272"
SellHandled == mpc \in {"L272", "L275"} /\ mpc' = "L302"

\* C16: in a crossing iteration the quantity is the smaller of the two
\* amounts and both amounts go down by it; an order left with amount 0 is
\* pushed into no book, an order left with more is pushed, with the reduced
\* amount, into the book it was popped from; with positive amounts one of
\* the two orders is out of the books when the iteration is over.
C16_CrossingIteration ==
  [][ /\ TradeStep =>
           LET b == bestBuy
               s == bestSell
               q == trades'[Len(trades')].qty
           IN /\ q = IF orders[b].Amount < orders[s].Amount
                       THEN orders[b].Amount ELSE orders[s].Amount
              /\ orders'[b].Amount = orders[b].Amount - q
              /\ orders'[s].Amount = orders[s].Amount - q
      /\ BuyHandled =>
           /\ orders[bestBuy].Amount = 0 => ~Resident(bestBuy)'
           /\ orders[bestBuy].Amount > 0 =>
                /\ bestBuy \in Range(BuyOrders') \ Range(SellOrders')
                /\ orders'[bestBuy].Amount = orders[bestBuy].Amount
      /\ SellHandled =>
           /\ orders[bestSell].Amount = 0 => ~Resident(bestSell)'
           /\ orders[bestSell].Amount > 0 =>
                /\ bestSell \in Range(SellOrders') \ Range(BuyOrders')
                /\ orders'[bestSell].Amount = orders[bestSell].Amount
           /\ AllPositive =>
                LET t == trades[Len(trades)]
                IN ~Resident(t.buy)' \/ ~Resident(t.sell)' ]_vars

\* A crossing iteration is over: the buy is back in the buy book with a
\* reduced amount and the sell, filled, is in no book.
C16_Witness ==
  /\ mpc = "L302"
  /\ AllPositive
  /\ LET t == trades[Len(trades)]
     IN /\ t.buy \in Range(BuyOrders)
        /\ orders[t.buy].Amount > 0
        /\ orders[t.buy].Amount = posted[t.buy].Amount - Traded(t.buy)
        /\ Traded(t.buy) > 0
        /\ orders[t.sell].Amount = 0
        /\ ~Resident(t.sell)

\* No resident buy has a price at or above the price of a resident sell.
NotCrossed ==
  \A b \in Range(BuyOrders) : \A s \in Range(SellOrders) :
    orders[b].Price < orders[s].Price

\* The sweep ends at line 298: the two popped orders did not cross and the
\* second of them is pushed back.
EndsUncrossed == mpc = "L295" /\ mpc' = "L312"

\* C17: when a sweep ends because the popped best buy is below the popped
\* best sell, and both are back in their books, the books are not crossed,
\* whatever ingestion pushed during the sweep.
C17_UncrossedAtSweepEnd ==
  [][EndsUncrossed /\ WellFormed => NotCrossed']_vars

\* C18: the matcher holds the best buy, with a positive amount, in neither
\* book between its pop and its push; GetHighestBuyOrder called then returns
\* the best of the buys that are in the book, nil when there is none, and
\* never the order the matcher holds. The same for the sells: a query
\* returns no order that is not in the book when it reads.
C18_QueryDuringHole ==
  [][ /\ ReadsBestBuy =>
           /\ qres' = << >> => BuyOrders = << >>
           /\ qres' # << >> =>
                /\ qres'[1].ID \in Range(BuyOrders) \ {bestBuy}
                /\ \A o \in Range(BuyOrders) : orders[o].Price <= qres'[1].Price
      /\ ReadsBestSell =>
           /\ qres' = << >> => SellOrders = << >>
           /\ qres' # << >> =>
                /\ qres'[1].ID \in Range(SellOrders) \ {bestSell}
                /\ \A o \in Range(SellOrders) : orders[o].Price >= qres'[1].Price ]_vars

\* GetHighestBuyOrder holds buyMutex and is about to read the root while the
\* matcher holds a better buy that is in neither book.
C18_Witness ==
  /\ qpc = "L358"
  /\ bestBuy # Nil
  /\ ~Resident(bestBuy)
  /\ orders[bestBuy].Amount > 0
  /\ BuyOrders # << >>
  /\ orders[bestBuy].Price > orders[BuyOrders[1]].Price

\* The book of the side of `order`, as it is in the current state.
OwnBook(order) == IF orders[order].Type = Buy THEN BuyOrders ELSE SellOrders

\* Every order for which AddOrder was called has been pushed into a book;
\* an order that was pushed once stays in `pushed`.
AllPushed == Range(pushed) = DOMAIN orders

\* C19: with the goroutines scheduled fairly, every AddOrder that is called
\* returns and its order is pushed, into the book of its side, whatever the
\* matcher does meanwhile; and AddOrder has not returned before the worker
\* received the order from the channel.
C19_IngestionLiveness ==
  /\ []<>AllPushed
  /\ [](\A o \in Range(pushed) : o \notin sending)
  /\ [][Ingests =>
         worder \in Range(IF orders[worder].Type = Buy THEN BuyOrders'
                                                      ELSE SellOrders')]_vars
  /\ [](\A o \in DOMAIN orders : o \notin sending => o \in Range(received))

\* Every order posted was pushed, the last of them while the matcher, which
\* has traded already, was holding a popped buy.
C19_Witness ==
  /\ Len(pushed) = MaxOrders
  /\ sending = {}
  /\ Len(trades) >= 1
  /\ bestBuy # Nil
  /\ pushed[MaxOrders] \in Range(OwnBook(pushed[MaxOrders]))

\* C20: every order in the buy book has Type BUY and every order in the sell
\* book has Type SELL.
C20_SideConsistency ==
  /\ \A o \in Range(BuyOrders) : orders[o].Type = Buy
  /\ \A o \in Range(SellOrders) : orders[o].Type = Sell

\* How many times the order is in the slice.
Times(s, order) == Cardinality({i \in DOMAIN s : s[i] = order})

\* In how many places the order is: blocked on the channel, with the worker,
\* in a book, or popped by the matcher and not yet pushed back or dropped.
Places(order) ==
  (IF order \in sending THEN 1 ELSE 0) + (IF order = worder THEN 1 ELSE 0)
  + Times(BuyOrders, order) + Times(SellOrders, order)
  + (IF order = bestBuy THEN 1 ELSE 0) + (IF order = bestSell THEN 1 ELSE 0)

\* Some MATCH line names the order.
HasTraded(order) ==
  \E i \in DOMAIN trades : order \in {trades[i].buy, trades[i].sell}

\* C22: every order given to AddOrder is in at most one place, and a resident
\* order is in the book addOrderInternal chooses for it; an order that is in
\* no place was named by a MATCH line and has amount 0, so no order with a
\* rest is dropped, the branch of lines 224-232 included.
C22_NoLossNoDuplicate ==
  \A o \in DOMAIN orders :
    /\ Places(o) <= 1
    /\ Times(IF BookOf(o) = Buy THEN SellOrders ELSE BuyOrders, o) = 0
    /\ Places(o) = 0 => orders[o].Amount = 0 /\ HasTraded(o)

\* The matcher found the sell book empty and holds a popped buy with a
\* rest; another order is blocked on the channel and a third, filled, is in
\* no place.
C22_Witness ==
  /\ mpc = "L227"
  /\ bestBuy # Nil
  /\ orders[bestBuy].Amount > 0
  /\ HasTraded(bestBuy)
  /\ sending # {}
  /\ \E o \in DOMAIN orders : Places(o) = 0

\* The matcher is inside an invocation of MatchOrders during which no order
\* was pushed so far.
InQuietSweep == quiet /\ mpc # "L203"

\* The matcher holds neither mutex.
MatcherUnlocked == buyMutex # "matcher" /\ sellMutex # "matcher"

\* C21 as stated, its bound: in an invocation of MatchOrders with no
\* ingestion the number of iterations is at most the number of orders that
\* were resident when it started, and no mutex is held when it ends.
C21_BoundedByResidents ==
  /\ InQuietSweep => iterationCount <= initial
  /\ mpc = "L312" => MatcherUnlocked

\* C21: an invocation of MatchOrders during which no order is pushed ends;
\* an iteration that does not end it has printed a MATCH line and left at
\* least one order fewer in the books, so the iterations are at most the
\* orders resident at the start, or one when none is resident (that one
\* finds the buy book empty); the matcher holds no mutex when the invocation
\* ends.
C21_SweepTerminates ==
  /\ []<>(~InQuietSweep)
  /\ [](InQuietSweep => iterationCount <= (IF initial = 0 THEN 1 ELSE initial))
  /\ [](InQuietSweep /\ mpc = "L302" =>
          /\ Len(trades) >= iterationCount
          /\ Len(BuyOrders) + Len(SellOrders) <= initial - iterationCount)
  /\ [](mpc \in {"L312", "L203"} => MatcherUnlocked)

\* An invocation with no ingestion is over after two iterations: it started
\* with three resident orders and both iterations traded.
C21_Witness ==
  /\ mpc = "L312"
  /\ quiet
  /\ initial = 3
  /\ iterationCount = 2
  /\ BuyOrders = << >>
  /\ SellOrders = << >>

====
